---- MODULE Spec2Model ----
(***************************************************************************)
(* Model of the ai-models generator (src/extract-model-types.ts) and of    *)
(* the query helpers of the module it generates.                           *)
(*                                                                         *)
(* A JavaScript string is a sequence of one-character strings, so that     *)
(* the regular expressions, toLowerCase, includes, split and string        *)
(* concatenation of the source are computed character by character.        *)
(***************************************************************************)
EXTENDS Integers, Sequences, FiniteSets, TLC

(***************************************************************************)
(* Bounds of the model.                                                    *)
(***************************************************************************)
\* number of text fragments concatenated into one declaration text
MaxDecls == 2
\* number of providers found by the discovery
MaxProviders == 2

(***************************************************************************)
(* Characters and strings.                                                 *)
(***************************************************************************)
Lower == <<"a","b","c","d","e","f","g","h","i","j","k","l","m","n","o","p","q","r","s","t","u","v","w","x","y","z">>
Upper == <<"A","B","C","D","E","F","G","H","I","J","K","L","M","N","O","P","Q","R","S","T","U","V","W","X","Y","Z">>
Digits == <<"0","1","2","3","4","5","6","7","8","9">>

Range(s) == {s[i] : i \in DOMAIN s}

\* the class \s of the regular expressions (the blanks that occur in the texts)
IsSpace(c) == c \in {" ", "\t", "\n"}

\* the class \w of the regular expressions: [A-Za-z0-9_]
IsWord(c) == c \in Range(Lower) \cup Range(Upper) \cup Range(Digits) \cup {"_"}

\* String.prototype.toLowerCase / toUpperCase on one character
LowerChar(c) == IF \E i \in DOMAIN Upper : Upper[i] = c
                THEN Lower[CHOOSE i \in DOMAIN Upper : Upper[i] = c]
                ELSE c
UpperChar(c) == IF \E i \in DOMAIN Lower : Lower[i] = c
                THEN Upper[CHOOSE i \in DOMAIN Lower : Lower[i] = c]
                ELSE c

toLowerCase(s) == [i \in DOMAIN s |-> LowerChar(s[i])]
toUpperCase(s) == [i \in DOMAIN s |-> UpperChar(s[i])]

\* String.prototype.includes
includes(s, sub) ==
  \E i \in 1..(Len(s) - Len(sub) + 1) : SubSeq(s, i, i + Len(sub) - 1) = sub

\* String.prototype.endsWith, the shape \w*Suffix of the patterns
EndsWith(s, suffix) ==
  /\ Len(suffix) <= Len(s)
  /\ SubSeq(s, Len(s) - Len(suffix) + 1, Len(s)) = suffix

\* the first position j >= i with s[j] = c, 0 when there is none
RECURSIVE IndexOf(_, _, _)
IndexOf(s, c, i) ==
  IF i > Len(s) THEN 0
  ELSE IF s[i] = c THEN i
  ELSE IndexOf(s, c, i + 1)

\* the position after the longest run of blanks / of word characters from i
RECURSIVE SkipSpace(_, _)
SkipSpace(s, i) ==
  IF i <= Len(s) /\ IsSpace(s[i]) THEN SkipSpace(s, i + 1) ELSE i

RECURSIVE SkipWord(_, _)
SkipWord(s, i) ==
  IF i <= Len(s) /\ IsWord(s[i]) THEN SkipWord(s, i + 1) ELSE i

\* the concatenation of a sequence of strings, Array.prototype.join('')
RECURSIVE Concat(_)
Concat(ss) == IF ss = <<>> THEN <<>> ELSE Head(ss) \o Concat(Tail(ss))

(***************************************************************************)
(* extractModelTypes: the pattern matcher.                                 *)
(***************************************************************************)
\* the patterns with the Model pattern listed before the ModelId pattern
typeRegexesModelFirst == <<
  <<"M","o","d","e","l">>,
  <<"M","o","d","e","l","I","d">>,
  <<"M","o","d","e","l","s">>,
  <<"C","h","a","t","M","o","d","e","l">>,
  <<"E","m","b","e","d","d","i","n","g","M","o","d","e","l">>,
  <<"I","m","a","g","e","M","o","d","e","l">>
>>

\* the suffixes of the six patterns /type\s+(\w*Suffix)\s*=\s*([^;]+);/g
typeRegexes == <<
  <<"M","o","d","e","l","I","d">>,
  <<"M","o","d","e","l">>,
  <<"M","o","d","e","l","s">>,
  <<"C","h","a","t","M","o","d","e","l">>,
  <<"E","m","b","e","d","d","i","n","g","M","o","d","e","l">>,
  <<"I","m","a","g","e","M","o","d","e","l">>
>>

NoMatch == [ok |-> FALSE, typeName |-> <<>>, definition |-> <<>>, end |-> 0]

\* One attempt of /type\s+(\w*Suffix)\s*=\s*([^;]+);/ at position p.
\*  \s+ and \s* take whole runs of blanks and \w*Suffix the whole run of
\*  word characters, since what follows each of them cannot start with a
\*  character of the run; [^;]+ runs to the first ';' and, when that ';'
\*  follows the blanks after '=' directly, \s* gives it back one blank.
MatchAt(content, p, suffix) ==
  LET n == Len(content)
      a == p + 4
      b == SkipSpace(content, a)
      c == SkipWord(content, b)
      d == SkipSpace(content, c)
      e == SkipSpace(content, d + 1)
      f == IndexOf(content, ";", e)
      defStart == IF f = e THEN e - 1 ELSE e
  IN  IF /\ p + 3 <= n
         /\ SubSeq(content, p, p + 3) = <<"t","y","p","e">>
         /\ b > a
         /\ EndsWith(SubSeq(content, b, c - 1), suffix)
         /\ d <= n
         /\ content[d] = "="
         /\ f # 0
         /\ defStart > d
      THEN [ok |-> TRUE,
            typeName |-> SubSeq(content, b, c - 1),
            definition |-> SubSeq(content, defStart, f - 1),
            end |-> f + 1]
      ELSE NoMatch

\* typeRegex.exec(content) from lastIndex: the leftmost match, or no match
exec(content, suffix, lastIndex) ==
  LET starts == {p \in lastIndex..Len(content) : MatchAt(content, p, suffix).ok}
  IN  IF starts = {} THEN NoMatch
      ELSE MatchAt(content, CHOOSE p \in starts : \A q \in starts : p <= q, suffix)

\* the matches of one pattern in a text, in the order exec returns them
RECURSIVE matchesFrom(_, _, _)
matchesFrom(text, suffix, lastIndex) ==
  LET m == exec(text, suffix, lastIndex)
  IN  IF ~m.ok THEN <<>> ELSE <<m>> \o matchesFrom(text, suffix, m.end)

\* the matches of the six patterns, in the order the two loops meet them
RECURSIVE allMatches(_, _)
allMatches(text, k) ==
  IF k > Len(typeRegexes) THEN <<>>
  ELSE matchesFrom(text, typeRegexes[k], 1) \o allMatches(text, k + 1)

(***************************************************************************)
(* extractModelTypes: literals, category, duplicates.                      *)
(***************************************************************************)
\* definition.match(/'([^']+)'/g): the quoted runs, <<>> standing for null
RECURSIVE modelMatches(_, _)
modelMatches(definition, i) ==
  IF i > Len(definition) THEN <<>>
  ELSE LET j == IndexOf(definition, "'", i + 2)
       IN  IF /\ definition[i] = "'"
              /\ i + 1 <= Len(definition)
              /\ definition[i + 1] # "'"
              /\ j # 0
           THEN <<SubSeq(definition, i, j)>> \o modelMatches(definition, j + 1)
           ELSE modelMatches(definition, i + 1)

\* the match as it is, quotes included
KeepQuotes(m) == m

\* m.replace(/'/g, '')
StripQuotes(m) == SelectSeq(m, LAMBDA c : c # "'")

\* modelMatches.map(m => m.replace(/'/g, ''))
models(definition) ==
  LET mm == modelMatches(definition, 1)
  IN  [i \in DOMAIN mm |-> StripQuotes(mm[i])]

KwEmbedding == <<"e","m","b","e","d","d","i","n","g">>
KwImage == <<"i","m","a","g","e">>
KwCompletion == <<"c","o","m","p","l","e","t","i","o","n">>
KwTranscription == <<"t","r","a","n","s","c","r","i","p","t","i","o","n">>
KwSpeech == <<"s","p","e","e","c","h">>
KwResponses == <<"r","e","s","p","o","n","s","e","s">>
Chat == <<"c","h","a","t">>

\* the chain with the test for image put before the test for embedding
categoryImageFirst(typeName) ==
  LET lower == toLowerCase(typeName)
  IN  IF includes(lower, KwImage) THEN KwImage
      ELSE IF includes(lower, KwEmbedding) THEN KwEmbedding
      ELSE IF includes(lower, KwCompletion) THEN KwCompletion
      ELSE IF includes(lower, KwTranscription) THEN KwTranscription
      ELSE IF includes(lower, KwSpeech) THEN KwSpeech
      ELSE IF includes(lower, KwResponses) THEN KwResponses
      ELSE Chat

\* the chain with the keyword found as the category and the name itself when none is
categoryNoDefault(typeName) ==
  LET lower == toLowerCase(typeName)
  IN  IF includes(lower, KwEmbedding) THEN KwEmbedding
      ELSE IF includes(lower, KwImage) THEN KwImage
      ELSE IF includes(lower, KwCompletion) THEN KwCompletion
      ELSE IF includes(lower, KwTranscription) THEN KwTranscription
      ELSE IF includes(lower, KwSpeech) THEN KwSpeech
      ELSE IF includes(lower, KwResponses) THEN KwResponses
      ELSE lower

\* the if / else-if chain that determines the category from the type name
category(typeName) ==
  LET lower == toLowerCase(typeName)
  IN  IF includes(lower, KwEmbedding) THEN KwEmbedding
      ELSE IF includes(lower, KwImage) THEN KwImage
      ELSE IF includes(lower, KwCompletion) THEN KwCompletion
      ELSE IF includes(lower, KwTranscription) THEN KwTranscription
      ELSE IF includes(lower, KwSpeech) THEN KwSpeech
      ELSE IF includes(lower, KwResponses) THEN KwResponses
      ELSE Chat

OpenAIResponsesModelId == <<"O","p","e","n","A","I","R","e","s","p","o","n","s","e","s","M","o","d","e","l","I","d">>

\* the exclusion compared against a differently spelled name
isSkippedMisspelled(typeName) == typeName = toLowerCase(OpenAIResponsesModelId)

\* if (typeName === 'OpenAIResponsesModelId') continue;
isSkipped(typeName) == typeName = OpenAIResponsesModelId

\* modelTypes.find(t => t.typeName === typeName)
existingType(modelTypes, typeName) ==
  \E i \in DOMAIN modelTypes : modelTypes[i].typeName = typeName

\* a later declaration of a name replacing the earlier record
pushOrReplace(modelTypes, rec) ==
  IF existingType(modelTypes, rec.typeName)
  THEN [i \in DOMAIN modelTypes |->
          IF modelTypes[i].typeName = rec.typeName THEN rec ELSE modelTypes[i]]
  ELSE Append(modelTypes, rec)

\* if (!existingType) modelTypes.push({typeName, models, category})
pushIfNew(modelTypes, rec) ==
  IF existingType(modelTypes, rec.typeName) THEN modelTypes
  ELSE Append(modelTypes, rec)

\* the body of the loop without the test if (modelMatches)
onMatchNoLiteralTest(modelTypes, m) ==
  IF m.typeName = <<>> \/ m.definition = <<>> THEN modelTypes
  ELSE IF isSkipped(m.typeName) THEN modelTypes
  ELSE pushIfNew(modelTypes,
                 [typeName |-> m.typeName,
                  models |-> models(m.definition),
                  category |-> category(m.typeName)])

\* the body of the while loop for one match
onMatch(modelTypes, m) ==
  IF m.typeName = <<>> \/ m.definition = <<>> THEN modelTypes
  ELSE IF isSkipped(m.typeName) THEN modelTypes
  ELSE IF modelMatches(m.definition, 1) = <<>> THEN modelTypes
  ELSE pushIfNew(modelTypes,
                 [typeName |-> m.typeName,
                  models |-> models(m.definition),
                  category |-> category(m.typeName)])

\* while ((match = typeRegex.exec(content)) !== null) { ... }
RECURSIVE whileExec(_, _, _, _)
whileExec(content, suffix, lastIndex, modelTypes) ==
  LET m == exec(content, suffix, lastIndex)
  IN  IF ~m.ok THEN modelTypes
      ELSE whileExec(content, suffix, m.end, onMatch(modelTypes, m))

\* for (const typeRegex of typeRegexes) { ... }
RECURSIVE forRegexes(_, _, _)
forRegexes(content, k, modelTypes) ==
  IF k > Len(typeRegexes) THEN modelTypes
  ELSE forRegexes(content, k + 1, whileExec(content, typeRegexes[k], 1, modelTypes))

extractModelTypes(content) == forRegexes(content, 1, <<>>)

(***************************************************************************)
(* generateModelTypesFile: the module it emits, as the values the emitted  *)
(* text evaluates to.  A JavaScript object is the sequence of its          *)
(* (key, value) pairs in insertion order.                                  *)
(***************************************************************************)
\* Array.from(new Set(seq)): the distinct elements in order of first appearance
RECURSIVE Distinct(_)
Distinct(seq) ==
  IF seq = <<>> THEN <<>>
  ELSE LET init == Distinct(SubSeq(seq, 1, Len(seq) - 1))
           last == seq[Len(seq)]
       IN  IF \E i \in DOMAIN init : init[i] = last THEN init ELSE Append(init, last)

\* provider.split(/[-@\/]/)
RECURSIVE split(_)
split(s) ==
  IF \E i \in DOMAIN s : s[i] \in {"-", "@", "/"}
  THEN LET i == CHOOSE i \in DOMAIN s :
                  /\ s[i] \in {"-", "@", "/"}
                  /\ \A j \in 1..(i - 1) : s[j] \notin {"-", "@", "/"}
       IN  <<SubSeq(s, 1, i - 1)>> \o split(SubSeq(s, i + 1, Len(s)))
  ELSE <<s>>

\* part.charAt(0).toUpperCase() + part.slice(1)
capitalize(part) ==
  IF part = <<>> THEN <<>> ELSE <<UpperChar(part[1])>> \o Tail(part)

\* the prefix whose parts are joined as they are
createProviderPrefixAsIs(provider) == Concat(split(provider))

createProviderPrefix(provider) ==
  LET parts == split(provider)
  IN  Concat([i \in DOMAIN parts |-> capitalize(parts[i])])

\* `${providerPrefix}${typeName}`
uniqueTypeName(provider, typeName) == createProviderPrefix(provider) \o typeName

\* the key emitted as it is, never quoted
providerKeyBare(provider) == provider

\* provider.includes('-') ? `'${provider}'` : provider
providerKey(provider) ==
  IF includes(provider, <<"-">>) THEN <<"'">> \o provider \o <<"'">> ELSE provider

\* a bare key of an object literal has to be an identifier name
IsIdentifierName(k) ==
  /\ k # <<>>
  /\ \A i \in DOMAIN k : IsWord(k[i]) \/ k[i] = "$"
  /\ k[1] \notin Range(Digits)

\* the property name an emitted key denotes: the text inside the quotes, or the bare identifier
PropertyName(k) ==
  IF k # <<>> /\ k[1] = "'" THEN SubSeq(k, 2, Len(k) - 1) ELSE k

\* the object an object literal evaluates to: a repeated key keeps its first
\* position and takes the last value
RECURSIVE ObjectLiteral(_)
ObjectLiteral(entries) ==
  IF entries = <<>> THEN <<>>
  ELSE LET init == ObjectLiteral(SubSeq(entries, 1, Len(entries) - 1))
           last == entries[Len(entries)]
           name == PropertyName(last.key)
       IN  IF \E i \in DOMAIN init : init[i].key = name
           THEN [i \in DOMAIN init |->
                   IF init[i].key = name THEN [key |-> name, value |-> last.value]
                   ELSE init[i]]
           ELSE Append(init, [key |-> name, value |-> last.value])

\* the type aliases: one per provider and record, `export type ${uniqueTypeName} = ...`
RECURSIVE typeAliases(_)
typeAliases(pm) ==
  IF pm = <<>> THEN <<>>
  ELSE LET e == Head(pm)
       IN  [i \in DOMAIN e.modelTypes |->
              [name |-> uniqueTypeName(e.provider, e.modelTypes[i].typeName),
               models |-> e.modelTypes[i].models]]
           \o typeAliases(Tail(pm))

\* categoryModels.forEach(...): `${uniqueTypeName}: [${models}]`
typeEntries(provider, categoryModels) ==
  ObjectLiteral([i \in DOMAIN categoryModels |->
    [key |-> uniqueTypeName(provider, categoryModels[i].typeName),
     value |-> categoryModels[i].models]])

\* categories.forEach(...): `${category}: {` for the records of that category
categoryEntries(provider, modelTypes) ==
  LET categories == Distinct([i \in DOMAIN modelTypes |-> modelTypes[i].category])
      categoryModels(c) == SelectSeq(modelTypes, LAMBDA t : t.category = c)
      nonEmpty == SelectSeq(categories, LAMBDA c : Len(categoryModels(c)) > 0)
  IN  ObjectLiteral([i \in DOMAIN nonEmpty |->
        [key |-> nonEmpty[i],
         value |-> typeEntries(provider, categoryModels(nonEmpty[i]))]])

\* export const AI_SDK_MODELS = { ... } as const
registry(pm) ==
  ObjectLiteral([i \in DOMAIN pm |->
    [key |-> providerKey(pm[i].provider),
     value |-> categoryEntries(pm[i].provider, pm[i].modelTypes)]])

\* a flat entry whose value joins provider and model with '/'
flatEntrySlash(provider, model, cat) ==
  [provider |-> provider, model |-> model, category |-> cat,
   value |-> provider \o <<"/">> \o model]

\* { provider, model, category, value: `${provider}:${model}` }
flatEntry(provider, model, cat) ==
  [provider |-> provider, model |-> model, category |-> cat,
   value |-> provider \o <<":">> \o model]

\* the flat entries of one record with repeated models dropped
flatOfTypeDistinct(provider, t) ==
  LET ms == Distinct(t.models)
  IN  [i \in DOMAIN ms |-> flatEntry(provider, ms[i], t.category)]

\* models.forEach(model => ...) of one record
flatOfType(provider, t) ==
  [i \in DOMAIN t.models |-> flatEntry(provider, t.models[i], t.category)]

\* modelTypes.forEach(...) of one provider
RECURSIVE flatOfProvider(_, _)
flatOfProvider(provider, modelTypes) ==
  IF modelTypes = <<>> THEN <<>>
  ELSE flatOfType(provider, Head(modelTypes)) \o flatOfProvider(provider, Tail(modelTypes))

\* the flat list with the first alias of every provider ahead of the other aliases
flatListFirstAliasesAhead(pm) ==
  Concat([i \in DOMAIN pm |-> flatOfProvider(pm[i].provider, SubSeq(pm[i].modelTypes, 1, 1))])
    \o Concat([i \in DOMAIN pm |->
                 flatOfProvider(pm[i].provider, SubSeq(pm[i].modelTypes, 2, Len(pm[i].modelTypes)))])

\* export const ALL_MODELS = [ ... ] as const
RECURSIVE flatList(_)
flatList(pm) ==
  IF pm = <<>> THEN <<>>
  ELSE flatOfProvider(Head(pm).provider, Head(pm).modelTypes) \o flatList(Tail(pm))

\* the emitted text is a module only if every bare provider key is an identifier
syntaxOK(pm) ==
  \A i \in DOMAIN pm :
    LET k == providerKey(pm[i].provider)
    IN  k[1] = "'" \/ IsIdentifierName(k)

\* the objects the emitted module freezes when it is loaded: `as const` is
\* erased by the compiler and the text holds no call of Object.freeze
frozenObjects == {}

generateModelTypesFile(pm) ==
  [written |-> TRUE,
   syntaxOK |-> syntaxOK(pm),
   types |-> typeAliases(pm),
   AI_SDK_MODELS |-> registry(pm),
   ALL_MODELS |-> flatList(pm),
   frozen |-> frozenObjects]

NotWritten ==
  [written |-> FALSE, syntaxOK |-> FALSE, types |-> <<>>,
   AI_SDK_MODELS |-> <<>>, ALL_MODELS |-> <<>>, frozen |-> {}]

(***************************************************************************)
(* The query helpers of the emitted module.  An argument is a JavaScript   *)
(* value: a string or null.                                                *)
(***************************************************************************)
Str(s) == [t |-> "string", v |-> s]
Null == [t |-> "null", v |-> <<>>]

\* the comparison made on lower-cased strings
EqualsIgnoreCase(field, arg) ==
  arg.t = "string" /\ toLowerCase(arg.v) = toLowerCase(field)

\* field === arg, for a field that is a string
StrictEquals(field, arg) == arg.t = "string" /\ arg.v = field

\* the filter that takes a falsy argument as "no filter", as findModels does
getModelsByProviderOptional(ALL_MODELS, provider) ==
  IF provider.t = "null" \/ provider.v = <<>> THEN ALL_MODELS
  ELSE SelectSeq(ALL_MODELS, LAMBDA m : StrictEquals(m.provider, provider))

\* ALL_MODELS.filter(m => m.provider === provider)
getModelsByProvider(ALL_MODELS, provider) ==
  SelectSeq(ALL_MODELS, LAMBDA m : StrictEquals(m.provider, provider))

\* ALL_MODELS.filter(m => m.category === category)
getModelsByCategory(ALL_MODELS, cat) ==
  SelectSeq(ALL_MODELS, LAMBDA m : StrictEquals(m.category, cat))

\* the providers of the entries, one per entry
getProvidersAll(ALL_MODELS) ==
  [i \in DOMAIN ALL_MODELS |-> ALL_MODELS[i].provider]

\* Array.from(new Set(ALL_MODELS.map(m => m.provider)))
getProviders(ALL_MODELS) ==
  Distinct([i \in DOMAIN ALL_MODELS |-> ALL_MODELS[i].provider])

\* Array.from(new Set(ALL_MODELS.map(m => m.category)))
getCategories(ALL_MODELS) ==
  Distinct([i \in DOMAIN ALL_MODELS |-> ALL_MODELS[i].category])

(***************************************************************************)
(* Discovery of the providers.                                             *)
(***************************************************************************)
COMMUNITY_PROVIDERS == <<
  <<"o","l","l","a","m","a","-","a","i","-","p","r","o","v","i","d","e","r">>,
  <<"c","h","r","o","m","e","-","a","i">>,
  <<"@","f","r","i","e","n","d","l","i","a","i","/","a","i","-","p","r","o","v","i","d","e","r">>,
  <<"@","p","o","r","t","k","e","y","-","a","i","/","v","e","r","c","e","l","-","p","r","o","v","i","d","e","r">>,
  <<"w","o","r","k","e","r","s","-","a","i","-","p","r","o","v","i","d","e","r">>,
  <<"@","o","p","e","n","r","o","u","t","e","r","/","a","i","-","s","d","k","-","p","r","o","v","i","d","e","r">>,
  <<"@","r","e","q","u","e","s","t","y","/","a","i","-","s","d","k">>,
  <<"@","c","r","o","s","s","h","a","t","c","h","/","a","i","-","p","r","o","v","i","d","e","r">>,
  <<"m","i","x","e","d","b","r","e","a","d","-","a","i","-","p","r","o","v","i","d","e","r">>,
  <<"v","o","y","a","g","e","-","a","i","-","p","r","o","v","i","d","e","r">>,
  <<"@","m","e","m","0","/","v","e","r","c","e","l","-","a","i","-","p","r","o","v","i","d","e","r">>,
  <<"@","l","e","t","t","a","-","a","i","/","v","e","r","c","e","l","-","a","i","-","s","d","k","-","p","r","o","v","i","d","e","r">>,
  <<"s","p","a","r","k","-","a","i","-","p","r","o","v","i","d","e","r">>,
  <<"a","n","t","h","r","o","p","i","c","-","v","e","r","t","e","x","-","a","i">>,
  <<"@","l","a","n","g","d","b","/","v","e","r","c","e","l","-","p","r","o","v","i","d","e","r">>,
  <<"d","i","f","y","-","a","i","-","p","r","o","v","i","d","e","r">>,
  <<"s","a","r","v","a","m","-","a","i","-","p","r","o","v","i","d","e","r">>
>>

\* COMMUNITY_PROVIDERS.includes(provider)
isCommunity(provider) ==
  \E i \in DOMAIN COMMUNITY_PROVIDERS : COMMUNITY_PROVIDERS[i] = provider

\* the official providers followed by the installed community providers, the
\* latter in the order of COMMUNITY_PROVIDERS
findAiSdkProviders(officialProviders, installed) ==
  officialProviders \o SelectSeq(COMMUNITY_PROVIDERS, LAMBDA p : p \in installed)

(***************************************************************************)
(* The inputs of the model.                                                *)
(***************************************************************************)
Openai == <<"o","p","e","n","a","i">>
GoogleVertex == <<"g","o","o","g","l","e","-","v","e","r","t","e","x">>
ChromeAi == <<"c","h","r","o","m","e","-","a","i">>
RequestyAiSdk == <<"@","r","e","q","u","e","s","t","y","/","a","i","-","s","d","k">>

\* the directories of node_modules/@ai-sdk that hold a dist/index.d.ts
OfficialDirs == {Openai, GoogleVertex}
\* the community packages that may be installed
CommunityPool == {ChromeAi, RequestyAiSdk}

\* the sequences without repetition over a set, in any order (readdir order)
DupFreeSeqs(S) ==
  UNION {{f \in [1..n -> S] : \A i, j \in 1..n : f[i] = f[j] => i = j} :
         n \in 0..Cardinality(S)}

\* pieces of declaration text
Fragments == <<
  <<"t","y","p","e"," ","A","M","o","d","e","l","I","d"," ","="," ","'","a","1","'"," ","|"," ","'","a","2","'"," ","|"," ","(","s","t","r","i","n","g"," ","&"," ","{","}",")",";","\n">>,
  <<"t","y","p","e"," ","A","M","o","d","e","l","I","d"," ","="," ","'","b","1","'",";">>,
  <<"t","y","p","e"," ","A","M","o","d","e","l","I","d"," ","="," ","s","t","r","i","n","g",";">>,
  <<"t","y","p","e"," ","I","m","a","g","e","E","m","b","e","d","d","i","n","g","M","o","d","e","l"," ","="," ","'","e","1","'",";">>,
  <<"t","y","p","e"," ","O","p","e","n","A","I","R","e","s","p","o","n","s","e","s","M","o","d","e","l","I","d"," ","="," ","'","r","1","'",";">>,
  <<"t","y","p","e"," ","S","p","e","e","c","h","M","o","d","e","l","s"," ","="," ","'","s","1","'"," ","|"," ","'","s","1","'",";">>,
  <<"t","y","p","e"," ","X","C","h","a","t","M","o","d","e","l"," ","="," ","'","c","1","'","\n">>,
  <<"t","y","p","e"," ","F","o","o"," ","="," ","'","z","'",";">>,
  <<"t","y","p","e"," ","B","I","m","a","g","e","M","o","d","e","l"," ","="," ","'","'"," ","|"," ","'","i","1","'",";">>,
  <<"t","y","p","e"," ","O","p","e","n","A","I","R","e","s","p","o","n","s","e","s","M","o","d","e","l","I","d"," ","="," ","'","r","2","'",";">>,
  <<"t","y","p","e"," ","S","p","e","e","c","h","T","r","a","n","s","c","r","i","p","t","i","o","n","M","o","d","e","l","I","d"," ","="," ","'","q","1","'",";">>,
  <<"t","y","p","e"," ","R","e","s","p","o","n","s","e","s","C","o","m","p","l","e","t","i","o","n","M","o","d","e","l"," ","="," ","'","p","1","'",";">>,
  <<"t","y","p","e"," ","O","p","e","n","a","i","R","e","s","p","o","n","s","e","s","M","o","d","e","l"," ","="," ","'","o","1","'",";">>,
  <<"t","y","p","e"," ","K","M","o","d","e","l"," ","="," ","'","k","1","'","\n","t","y","p","e"," ","L","C","h","a","t","M","o","d","e","l"," ","="," ","'","l","1","'",";">>
>>

\* a declaration text: the concatenation of the chosen fragments
TextOf(choice) == Concat([i \in DOMAIN choice |-> Fragments[choice[i]]])

\* the texts of at most MaxDecls fragments
TextChoices == UNION {[1..n -> DOMAIN Fragments] : n \in 0..MaxDecls}

\* the texts the providers of a run of main may hold
MainChoices == {<<1>>, <<4, 6>>, <<5>>, <<3, 2>>, <<8>>, <<1, 4>>, <<5, 9>>}

\* the arguments the query helpers are called with
ProviderArgs ==
  {Str(p) : p \in OfficialDirs \cup CommunityPool}
    \cup {Str(<<>>), Str(<<" "," "," ">>), Str(<<"O","P","E","N","A","I">>),
          Str(<<"z","z">>), Null}

CategoryArgs ==
  {Str(Chat), Str(KwEmbedding), Str(KwImage), Str(KwSpeech),
   Str(<<>>), Str(<<" "," "," ">>), Str(<<"C","H","A","T">>), Null}

(***************************************************************************)
(* The provider collections of src/improved-exports.ts, computed from      *)
(* ALL_MODELS when the module is loaded.                                   *)
(***************************************************************************)
Google == <<"g","o","o","g","l","e">>
Anthropic == <<"a","n","t","h","r","o","p","i","c">>
Mistral == <<"m","i","s","t","r","a","l">>

\* ALL_MODELS.filter(m => m.provider === provider && m.category === cat).map(m => m.model)
modelsOf(ALL_MODELS, provider, cat) ==
  LET found == SelectSeq(ALL_MODELS, LAMBDA m : m.provider = provider /\ m.category = cat)
  IN  [i \in DOMAIN found |-> found[i].model]

OPENAI_MODELS(ALL_MODELS) ==
  <<[key |-> Chat, value |-> modelsOf(ALL_MODELS, Openai, Chat)],
    [key |-> KwCompletion, value |-> modelsOf(ALL_MODELS, Openai, KwCompletion)],
    [key |-> KwEmbedding, value |-> modelsOf(ALL_MODELS, Openai, KwEmbedding)],
    [key |-> KwImage, value |-> modelsOf(ALL_MODELS, Openai, KwImage)],
    [key |-> KwTranscription, value |-> modelsOf(ALL_MODELS, Openai, KwTranscription)],
    [key |-> KwSpeech, value |-> modelsOf(ALL_MODELS, Openai, KwSpeech)]>>

ANTHROPIC_MODELS(ALL_MODELS) ==
  <<[key |-> Chat, value |-> modelsOf(ALL_MODELS, Anthropic, Chat)]>>

\* the image list is taken from the provider google-vertex
GOOGLE_MODELS(ALL_MODELS) ==
  <<[key |-> Chat, value |-> modelsOf(ALL_MODELS, Google, Chat)],
    [key |-> KwEmbedding, value |-> modelsOf(ALL_MODELS, Google, KwEmbedding)],
    [key |-> KwImage, value |-> modelsOf(ALL_MODELS, GoogleVertex, KwImage)]>>

MISTRAL_MODELS(ALL_MODELS) ==
  <<[key |-> Chat, value |-> modelsOf(ALL_MODELS, Mistral, Chat)],
    [key |-> KwEmbedding, value |-> modelsOf(ALL_MODELS, Mistral, KwEmbedding)]>>

\* the four collections by name
providerCollections(ALL_MODELS) ==
  [OPENAI_MODELS |-> OPENAI_MODELS(ALL_MODELS),
   ANTHROPIC_MODELS |-> ANTHROPIC_MODELS(ALL_MODELS),
   GOOGLE_MODELS |-> GOOGLE_MODELS(ALL_MODELS),
   MISTRAL_MODELS |-> MISTRAL_MODELS(ALL_MODELS)]

(***************************************************************************)
(* The utility functions of src/improved-exports.ts.                       *)
(***************************************************************************)
Undefined == [t |-> "undefined", v |-> <<>>]

\* the value an object reference is: the entry found by find
Obj(o) == [t |-> "object", v |-> o]

\* a value that `!x` and `x ? ... : ...` take as true: a non-empty string
Truthy(x) == x.t = "string" /\ x.v # <<>>

\* the position find stops at: the first entry whose model is the argument
findIndex(ALL_MODELS, model) ==
  LET hits == {i \in DOMAIN ALL_MODELS : StrictEquals(ALL_MODELS[i].model, model)}
  IN  IF hits = {} THEN 0 ELSE CHOOSE i \in hits : \A j \in hits : i <= j

\* the lookup that returns the last match
getModelInfoLast(ALL_MODELS, model) ==
  LET hits == {i \in DOMAIN ALL_MODELS : StrictEquals(ALL_MODELS[i].model, model)}
  IN  IF ~ Truthy(model) \/ hits = {} THEN Null
      ELSE Obj(ALL_MODELS[CHOOSE i \in hits : \A j \in hits : i >= j])

\* if (!model) return null; return ALL_MODELS.find(m => m.model === model) || null
getModelInfo(ALL_MODELS, model) ==
  IF ~ Truthy(model) THEN Null
  ELSE IF findIndex(ALL_MODELS, model) = 0 THEN Null
  ELSE Obj(ALL_MODELS[findIndex(ALL_MODELS, model)])

\* if (!model) return false; return ALL_MODELS.some(m => m.model === model)
isValidModel(ALL_MODELS, model) ==
  IF ~ Truthy(model) THEN FALSE
  ELSE \E i \in DOMAIN ALL_MODELS : StrictEquals(ALL_MODELS[i].model, model)

\* { provider, category }: a field is a string or undefined
Options(provider, cat) == [provider |-> provider, category |-> cat]

\* ALL_MODELS.filter(m => (provider ? m.provider === provider : true) &&
\*                        (category ? m.category === category : true))
findModels(ALL_MODELS, options) ==
  SelectSeq(ALL_MODELS, LAMBDA m :
    /\ (Truthy(options.provider) => StrictEquals(m.provider, options.provider))
    /\ (Truthy(options.category) => StrictEquals(m.category, options.category)))

\* the filter on the list of providers without the test of its length
getModelsByProvidersFirst(ALL_MODELS, providerList) ==
  IF providerList = <<>> THEN <<>>
  ELSE SelectSeq(ALL_MODELS, LAMBDA m : m.provider = providerList[1])

\* if (providers.length === 0) return []; filter(m => providers.includes(m.provider))
getModelsByProviders(ALL_MODELS, providerList) ==
  IF Len(providerList) = 0 THEN <<>>
  ELSE SelectSeq(ALL_MODELS, LAMBDA m : \E k \in DOMAIN providerList : providerList[k] = m.provider)

\* if (categories.length === 0) return []; filter(m => categories.includes(m.category))
getModelsByCategories(ALL_MODELS, categoryList) ==
  IF Len(categoryList) = 0 THEN <<>>
  ELSE SelectSeq(ALL_MODELS, LAMBDA m : \E k \in DOMAIN categoryList : categoryList[k] = m.category)

\* if (!options) return ALL_MODELS.length; return findModels(options).length
getModelCount(ALL_MODELS, options) ==
  IF options = Undefined THEN Len(ALL_MODELS)
  ELSE Len(findModels(ALL_MODELS, options))

\* the grouping that lists every model of the provider under every category
getProviderModelsUngrouped(ALL_MODELS, provider) ==
  LET found == SelectSeq(ALL_MODELS, LAMBDA m : StrictEquals(m.provider, provider))
      categories == Distinct([i \in DOMAIN found |-> found[i].category])
  IN  [k \in DOMAIN categories |->
         [key |-> categories[k], value |-> [i \in DOMAIN found |-> found[i].model]]]

\* categories.reduce((acc, category) => { acc[category] = models.filter(...).map(...) }, {})
getProviderModels(ALL_MODELS, provider) ==
  LET found == SelectSeq(ALL_MODELS, LAMBDA m : StrictEquals(m.provider, provider))
      categories == Distinct([i \in DOMAIN found |-> found[i].category])
      ofCategory(c) == SelectSeq(found, LAMBDA m : m.category = c)
  IN  [k \in DOMAIN categories |->
         [key |-> categories[k],
          value |-> [i \in DOMAIN ofCategory(categories[k]) |-> ofCategory(categories[k])[i].model]]]

\* providers.reduce((acc, provider) => { acc[provider] = models.filter(...).map(...) }, {})
getCategoryModels(ALL_MODELS, cat) ==
  LET found == SelectSeq(ALL_MODELS, LAMBDA m : StrictEquals(m.category, cat))
      providerNames == Distinct([i \in DOMAIN found |-> found[i].provider])
      ofProvider(p) == SelectSeq(found, LAMBDA m : m.provider = p)
  IN  [k \in DOMAIN providerNames |->
         [key |-> providerNames[k],
          value |-> [i \in DOMAIN ofProvider(providerNames[k]) |-> ofProvider(providerNames[k])[i].model]]]

(***************************************************************************)
(* The state.                                                              *)
(***************************************************************************)
VARIABLES
  pc,             \* "extract", "returned": extractModelTypes on its own;
                  \* "loop", "written", "aborted": main
  content,        \* the declaration text under extraction
  regexIdx,       \* the index in typeRegexes of the next pattern
  modelTypes,     \* the records extracted from content so far
  providers,      \* the providers found by findAiSdkProviders
  idx,            \* the index in providers of the next provider
  providerModels, \* provider -> records, in insertion order
  output,         \* the generated module
  call,           \* the last call of a query helper and its result
  caller,         \* the array the caller holds from that call, and history:
                  \* the mutations the caller has made
  log             \* history: what each iteration of the loop of main did, with
                  \* the text read, its declarations and the records returned

vars == <<pc, content, regexIdx, modelTypes, providers, idx, providerModels, output, call, caller, log>>

NoCall == [fn |-> "none", arg |-> Null, result |-> <<>>]

\* an element of a held array: a reference to the object ALL_MODELS[ref], or
\* (ref = 0) a value of its own
Ref(i) == [ref |-> i, val |-> <<>>]
Val(v) == [ref |-> 0, val |-> v]

NoCaller == [held |-> <<>>, ops |-> <<>>]

(***************************************************************************)
(* extractModelTypes, one pattern at a time.                               *)
(***************************************************************************)
InitExtract ==
  /\ pc = "extract"
  /\ content \in {TextOf(ch) : ch \in TextChoices}
  /\ regexIdx = 1
  /\ modelTypes = <<>>
  /\ providers = <<>>
  /\ idx = 1
  /\ providerModels = <<>>
  /\ output = NotWritten
  /\ call = NoCall
  /\ caller = NoCaller
  /\ log = <<>>

\* one iteration of for (const typeRegex of typeRegexes)
ApplyRegex ==
  /\ pc = "extract"
  /\ regexIdx <= Len(typeRegexes)
  /\ modelTypes' = whileExec(content, typeRegexes[regexIdx], 1, modelTypes)
  /\ regexIdx' = regexIdx + 1
  /\ UNCHANGED <<pc, content, providers, idx, providerModels, output, call, caller, log>>

\* return modelTypes
ReturnModelTypes ==
  /\ pc = "extract"
  /\ regexIdx > Len(typeRegexes)
  /\ pc' = "returned"
  /\ UNCHANGED <<content, regexIdx, modelTypes, providers, idx, providerModels, output, call, caller, log>>

NextExtract == ApplyRegex \/ ReturnModelTypes

SpecExtract == InitExtract /\ [][NextExtract]_vars

(***************************************************************************)
(* main, and the calls of the generated helpers.                           *)
(***************************************************************************)
Init ==
  /\ pc = "loop"
  /\ content = <<>>
  /\ regexIdx = 1
  /\ modelTypes = <<>>
  /\ \E officialProviders \in DupFreeSeqs(OfficialDirs), installed \in SUBSET CommunityPool :
       /\ Len(findAiSdkProviders(officialProviders, installed)) <= MaxProviders
       /\ providers = findAiSdkProviders(officialProviders, installed)
  /\ idx = 1
  /\ providerModels = <<>>
  /\ output = NotWritten
  /\ call = NoCall
  /\ caller = NoCaller
  /\ log = <<>>

\* the assignment that puts a new provider in front of the others
assignFirst(pm, provider, types) ==
  IF \E i \in DOMAIN pm : pm[i].provider = provider
  THEN [i \in DOMAIN pm |->
          IF pm[i].provider = provider
          THEN [provider |-> provider, modelTypes |-> types]
          ELSE pm[i]]
  ELSE <<[provider |-> provider, modelTypes |-> types]>> \o pm

\* providerModels[provider] = modelTypes
assign(pm, provider, types) ==
  IF \E i \in DOMAIN pm : pm[i].provider = provider
  THEN [i \in DOMAIN pm |->
          IF pm[i].provider = provider
          THEN [provider |-> provider, modelTypes |-> types]
          ELSE pm[i]]
  ELSE Append(pm, [provider |-> provider, modelTypes |-> types])

\* the assignment without the test of modelTypes.length
recordAlways(pm, provider, types) == assign(pm, provider, types)

\* if (modelTypes.length > 0) providerModels[provider] = modelTypes
record(pm, provider, types) ==
  IF Len(types) > 0 THEN assign(pm, provider, types) ELSE pm

\* the body of the loop when the declaration text is read
ProcessProvider ==
  /\ pc = "loop"
  /\ idx <= Len(providers)
  /\ \E ch \in MainChoices :
       /\ content' = TextOf(ch)
       /\ modelTypes' = extractModelTypes(TextOf(ch))
       /\ providerModels' = record(providerModels, providers[idx], extractModelTypes(TextOf(ch)))
       /\ log' = Append(log, [provider |-> providers[idx], outcome |-> "read",
                              content |-> TextOf(ch),
                              declarations |-> allMatches(TextOf(ch), 1),
                              records |-> extractModelTypes(TextOf(ch))])
  /\ regexIdx' = Len(typeRegexes) + 1
  /\ idx' = idx + 1
  /\ UNCHANGED <<pc, providers, output, call, caller>>

\* readFileSync throws and nothing catches it: main rejects
ReadFailsRethrows ==
  /\ pc = "loop"
  /\ idx <= Len(providers)
  /\ idx' = idx + 1
  /\ pc' = "aborted"
  /\ log' = Append(log, [provider |-> providers[idx], outcome |-> "throw",
                         content |-> <<>>, declarations |-> <<>>, records |-> <<>>])
  /\ UNCHANGED <<content, regexIdx, modelTypes, providers, providerModels, output, call, caller>>

\* readFileSync throws: the catch logs the error and the loop goes on
ReadFails ==
  /\ pc = "loop"
  /\ idx <= Len(providers)
  /\ idx' = idx + 1
  /\ log' = Append(log, [provider |-> providers[idx], outcome |-> "throw",
                         content |-> <<>>, declarations |-> <<>>, records |-> <<>>])
  /\ UNCHANGED <<pc, content, regexIdx, modelTypes, providers, providerModels, output, call, caller>>

\* a community provider whose type file is gone: continue
NoTypeFile ==
  /\ pc = "loop"
  /\ idx <= Len(providers)
  /\ isCommunity(providers[idx])
  /\ idx' = idx + 1
  /\ log' = Append(log, [provider |-> providers[idx], outcome |-> "nofile",
                         content |-> <<>>, declarations |-> <<>>, records |-> <<>>])
  /\ UNCHANGED <<pc, content, regexIdx, modelTypes, providers, providerModels, output, call, caller>>

\* the write made without waiting for the end of the loop
WriteOutputEarly ==
  /\ pc = "loop"
  /\ output' = generateModelTypesFile(providerModels)
  /\ pc' = "written"
  /\ UNCHANGED <<content, regexIdx, modelTypes, providers, idx, providerModels, call, caller, log>>

\* generateModelTypesFile and writeFileSync
WriteOutput ==
  /\ pc = "loop"
  /\ idx > Len(providers)
  /\ output' = generateModelTypesFile(providerModels)
  /\ pc' = "written"
  /\ UNCHANGED <<content, regexIdx, modelTypes, providers, idx, providerModels, call, caller, log>>

\* writeFileSync throws: main rejects and nothing is written
WriteFails ==
  /\ pc = "loop"
  /\ idx > Len(providers)
  /\ pc' = "aborted"
  /\ UNCHANGED <<content, regexIdx, modelTypes, providers, idx, providerModels, output, call, caller, log>>

\* the array filter returns: a new array that holds the selected element
\* objects of ALL_MODELS themselves
filterRefs(ALL_MODELS, field, arg) ==
  LET positions == SelectSeq([i \in DOMAIN ALL_MODELS |-> i],
                             LAMBDA i : StrictEquals(ALL_MODELS[i][field], arg))
  IN  [k \in DOMAIN positions |-> Ref(positions[k])]

\* the array Array.from(new Set(...)) returns: a new array of strings
newArray(values) == [k \in DOMAIN values |-> Val(values[k])]

CallGetModelsByProvider ==
  /\ pc = "written"
  /\ output.syntaxOK
  /\ \E arg \in ProviderArgs :
       /\ call' = [fn |-> "getModelsByProvider", arg |-> arg,
                   result |-> getModelsByProvider(output.ALL_MODELS, arg)]
       /\ caller' = [caller EXCEPT !.held = filterRefs(output.ALL_MODELS, "provider", arg)]
  /\ UNCHANGED <<pc, content, regexIdx, modelTypes, providers, idx, providerModels, output, log>>

CallGetModelsByCategory ==
  /\ pc = "written"
  /\ output.syntaxOK
  /\ \E arg \in CategoryArgs :
       /\ call' = [fn |-> "getModelsByCategory", arg |-> arg,
                   result |-> getModelsByCategory(output.ALL_MODELS, arg)]
       /\ caller' = [caller EXCEPT !.held = filterRefs(output.ALL_MODELS, "category", arg)]
  /\ UNCHANGED <<pc, content, regexIdx, modelTypes, providers, idx, providerModels, output, log>>

CallGetProviders ==
  /\ pc = "written"
  /\ output.syntaxOK
  /\ call' = [fn |-> "getProviders", arg |-> Null,
              result |-> getProviders(output.ALL_MODELS)]
  /\ caller' = [caller EXCEPT !.held = newArray(getProviders(output.ALL_MODELS))]
  /\ UNCHANGED <<pc, content, regexIdx, modelTypes, providers, idx, providerModels, output, log>>

CallGetCategories ==
  /\ pc = "written"
  /\ output.syntaxOK
  /\ call' = [fn |-> "getCategories", arg |-> Null,
              result |-> getCategories(output.ALL_MODELS)]
  /\ caller' = [caller EXCEPT !.held = newArray(getCategories(output.ALL_MODELS))]
  /\ UNCHANGED <<pc, content, regexIdx, modelTypes, providers, idx, providerModels, output, log>>

Next ==
  \/ ProcessProvider
  \/ ReadFails
  \/ NoTypeFile
  \/ WriteOutput
  \/ WriteFails
  \/ CallGetModelsByProvider
  \/ CallGetModelsByCategory
  \/ CallGetProviders
  \/ CallGetCategories

Spec == Init /\ [][Next]_vars

(***************************************************************************)
(* The loaded module and a caller that mutates what it can reach.          *)
(***************************************************************************)
\* number of mutations a caller makes
MaxMutations == 1

VertexDeclarations == <<"t","y","p","e"," ","M","o","d","e","l","I","d"," ","="," ","'","k","1","'",";","t","y","p","e"," ","V","e","r","t","e","x","M","o","d","e","l","I","d"," ","="," ","'","k","2","'",";">>
ImagenDeclarations == <<"t","y","p","e"," ","I","m","a","g","e","n","M","o","d","e","l","I","d"," ","="," ","'","i","1","'",";">>

\* the provider lists and the declaration texts of the builds that are loaded
ApiProviderLists ==
  {<<Openai>>, <<Openai, Google>>, <<Google, GoogleVertex>>,
   <<GoogleVertex, Google>>, <<Anthropic, Mistral>>}
ApiTexts == {TextOf(<<1, 4>>), VertexDeclarations, ImagenDeclarations}

\* the loop of main over providers whose texts are all read
RECURSIVE mainLoop(_, _, _, _)
mainLoop(ps, texts, i, st) ==
  IF i > Len(ps) THEN st
  ELSE mainLoop(ps, texts, i + 1,
         [providerModels |-> record(st.providerModels, ps[i], extractModelTypes(texts[i])),
          log |-> Append(st.log, [provider |-> ps[i], outcome |-> "read",
                                  content |-> texts[i],
                                  declarations |-> allMatches(texts[i], 1),
                                  records |-> extractModelTypes(texts[i])])])

\* the module generated by a run of main has been loaded
InitApi ==
  /\ pc = "written"
  /\ regexIdx = Len(typeRegexes) + 1
  /\ call = NoCall
  /\ caller = NoCaller
  /\ \E ps \in ApiProviderLists :
       \E texts \in [1..Len(ps) -> ApiTexts] :
         LET st == mainLoop(ps, texts, 1, [providerModels |-> <<>>, log |-> <<>>])
         IN  /\ providers = ps
             /\ idx = Len(ps) + 1
             /\ content = texts[Len(ps)]
             /\ modelTypes = extractModelTypes(texts[Len(ps)])
             /\ providerModels = st.providerModels
             /\ log = st.log
             /\ output = generateModelTypesFile(st.providerModels)

Fake == <<"f","a","k","e">>

\* Object.isFrozen(o)
Object_isFrozen(o) == o \in output.frozen

\* the names of the four query helpers
QueryHelpers ==
  {"getModelsByProvider", "getModelsByCategory", "getProviders", "getCategories"}

\* the value a held element denotes
deref(item) == IF item.ref > 0 THEN output.ALL_MODELS[item.ref] ELSE item.val

\* a provider collection is read: OPENAI_MODELS.chat, ...  The collections are
\* computed once, when the module is loaded, from ALL_MODELS as generated.
ReadCollection ==
  /\ pc = "written"
  /\ output.syntaxOK
  /\ \E name \in {"OPENAI_MODELS", "ANTHROPIC_MODELS", "GOOGLE_MODELS", "MISTRAL_MODELS"} :
       LET collection == providerCollections(flatList(providerModels))[name]
       IN  \E k \in DOMAIN collection :
             /\ call' = [fn |-> name, arg |-> Str(collection[k].key),
                         result |-> collection[k].value]
             /\ caller' = [caller EXCEPT !.held = newArray(collection[k].value)]
  /\ UNCHANGED <<pc, content, regexIdx, modelTypes, providers, idx, providerModels, output, log>>

\* the caller pushes onto the array a query helper returned: result.push(fake)
HeldPush ==
  /\ pc = "written"
  /\ call.fn \in QueryHelpers
  /\ Len(caller.ops) < MaxMutations
  /\ caller' = [held |-> Append(caller.held, Val(Fake)),
                ops |-> Append(caller.ops, "push")]
  /\ UNCHANGED <<pc, content, regexIdx, modelTypes, providers, idx, providerModels, output, call, log>>

\* the caller writes a field of an element of the array a query helper
\* returned: result[k].provider = 'fake'
HeldElementWrite ==
  /\ pc = "written"
  /\ call.fn \in QueryHelpers
  /\ Len(caller.ops) < MaxMutations
  /\ ~ Object_isFrozen("elements")
  /\ \E k \in DOMAIN caller.held :
       /\ caller.held[k].ref > 0
       /\ output' = [output EXCEPT !.ALL_MODELS[caller.held[k].ref].provider = Fake]
  /\ caller' = [caller EXCEPT !.ops = Append(caller.ops, "element")]
  /\ UNCHANGED <<pc, content, regexIdx, modelTypes, providers, idx, providerModels, call, log>>

\* the caller writes to an exported constant: (ALL_MODELS as any).push(fake),
\* (AI_SDK_MODELS as any).fake = {}
ConstantWrite ==
  /\ pc = "written"
  /\ output.syntaxOK
  /\ Len(caller.ops) < MaxMutations
  /\ \/ /\ ~ Object_isFrozen("ALL_MODELS")
        /\ output' = [output EXCEPT !.ALL_MODELS =
                        Append(@, flatEntry(Fake, Fake, Fake))]
     \/ /\ ~ Object_isFrozen("AI_SDK_MODELS")
        /\ output' = [output EXCEPT !.AI_SDK_MODELS =
                        Append(@, [key |-> Fake, value |-> <<>>])]
  /\ caller' = [caller EXCEPT !.ops = Append(caller.ops, "constant")]
  /\ UNCHANGED <<pc, content, regexIdx, modelTypes, providers, idx, providerModels, call, log>>

NextApi ==
  \/ CallGetModelsByProvider
  \/ CallGetModelsByCategory
  \/ CallGetProviders
  \/ CallGetCategories
  \/ ReadCollection
  \/ HeldPush
  \/ HeldElementWrite
  \/ ConstantWrite

SpecApi == InitApi /\ [][NextApi]_vars

(***************************************************************************)
(* The loaded module and a caller of the utility functions of              *)
(* src/improved-exports.ts, of the generated helpers and of                *)
(* extractModelTypes on the emitted declarations.                          *)
(***************************************************************************)
Unknown == <<"z","z">>

\* the provider directories and the declaration texts of the loaded module
ExportsProviderLists == {<<Openai, Google>>, <<Google, GoogleVertex>>, <<Mistral>>}
ExportsTexts == ApiTexts \cup {TextOf(<<5, 9>>)}

InitExports ==
  \E ps \in ExportsProviderLists :
    \E texts \in [DOMAIN ps -> ExportsTexts] :
      LET st == mainLoop(ps, texts, 1, [providerModels |-> <<>>, log |-> <<>>])
      IN  /\ pc = "written"
          /\ content = texts[Len(ps)]
          /\ regexIdx = Len(typeRegexes) + 1
          /\ modelTypes = extractModelTypes(texts[Len(ps)])
          /\ providers = ps
          /\ idx = Len(ps) + 1
          /\ providerModels = st.providerModels
          /\ output = generateModelTypesFile(st.providerModels)
          /\ call = NoCall
          /\ caller = NoCaller
          /\ log = st.log

\* the arguments of getModelInfo and isValidModel
ModelArgs ==
  {Str(<<"a","1">>), Str(<<"e","1">>), Str(<<"k","1">>), Str(<<"i","1">>),
   Str(<<"A","1">>), Str(Unknown), Str(<<>>), Null, Undefined}

\* the options of findModels and getModelCount
OptionArgs ==
  {Options(p, c) :
     p \in {Undefined, Str(<<>>), Str(Openai), Str(Google), Str(Unknown)},
     c \in {Undefined, Str(<<>>), Str(Chat), Str(KwEmbedding)}}

\* the lists of getModelsByProviders and getModelsByCategories
ProviderListArgs ==
  {<<>>, <<Openai>>, <<Google, Openai>>, <<GoogleVertex, Google>>,
   <<Anthropic, Mistral>>, <<Unknown>>}
CategoryListArgs ==
  {<<>>, <<Chat>>, <<KwImage, Chat>>, <<KwEmbedding, KwImage>>, <<Unknown>>}

\* the arguments of getProviderModels
GroupArgs ==
  {Str(Openai), Str(Google), Str(GoogleVertex), Str(Mistral), Str(Unknown), Str(<<>>), Null}

RECURSIVE join(_, _)
join(parts, sep) ==
  IF parts = <<>> THEN <<>>
  ELSE IF Len(parts) = 1 THEN parts[1]
  ELSE parts[1] \o sep \o join(Tail(parts), sep)

\* the declaration with the literals in double quotes
typeDeclarationDoubleQuoted(name, ms) ==
  <<"e","x","p","o","r","t"," ","t","y","p","e"," ">> \o name \o <<" ","="," ">>
    \o join([i \in DOMAIN ms |-> <<"\"">> \o ms[i] \o <<"\"">>], <<" ","|"," ">>)
    \o <<" ","|"," ">> \o <<"(","s","t","r","i","n","g"," ","&"," ","{","}",")",";">>

\* `export type ${uniqueTypeName} = ${models.map(m => `'${m}'`).join(' | ')} | (string & {});`
typeDeclaration(name, ms) ==
  <<"e","x","p","o","r","t"," ","t","y","p","e"," ">> \o name \o <<" ","="," ">>
    \o join([i \in DOMAIN ms |-> <<"'">> \o ms[i] \o <<"'">>], <<" ","|"," ">>)
    \o <<" ","|"," ">> \o <<"(","s","t","r","i","n","g"," ","&"," ","{","}",")",";">>

\* a call of a function that hands no array of entries to the caller
Returns(fn, arg, result) ==
  /\ call' = [fn |-> fn, arg |-> arg, result |-> result]
  /\ caller' = [caller EXCEPT !.held = <<>>]

CallGetModelInfo ==
  /\ pc = "written"
  /\ output.syntaxOK
  /\ \E arg \in ModelArgs :
       Returns("getModelInfo", arg, getModelInfo(output.ALL_MODELS, arg))
  /\ UNCHANGED <<pc, content, regexIdx, modelTypes, providers, idx, providerModels, output, log>>

CallIsValidModel ==
  /\ pc = "written"
  /\ output.syntaxOK
  /\ \E arg \in ModelArgs :
       Returns("isValidModel", arg, isValidModel(output.ALL_MODELS, arg))
  /\ UNCHANGED <<pc, content, regexIdx, modelTypes, providers, idx, providerModels, output, log>>

CallFindModels ==
  /\ pc = "written"
  /\ output.syntaxOK
  /\ \E arg \in OptionArgs :
       Returns("findModels", arg, findModels(output.ALL_MODELS, arg))
  /\ UNCHANGED <<pc, content, regexIdx, modelTypes, providers, idx, providerModels, output, log>>

CallGetModelCount ==
  /\ pc = "written"
  /\ output.syntaxOK
  /\ \E arg \in OptionArgs \cup {Undefined} :
       Returns("getModelCount", arg, getModelCount(output.ALL_MODELS, arg))
  /\ UNCHANGED <<pc, content, regexIdx, modelTypes, providers, idx, providerModels, output, log>>

CallGetModelsByProviders ==
  /\ pc = "written"
  /\ output.syntaxOK
  /\ \E arg \in ProviderListArgs :
       Returns("getModelsByProviders", arg, getModelsByProviders(output.ALL_MODELS, arg))
  /\ UNCHANGED <<pc, content, regexIdx, modelTypes, providers, idx, providerModels, output, log>>

CallGetModelsByCategories ==
  /\ pc = "written"
  /\ output.syntaxOK
  /\ \E arg \in CategoryListArgs :
       Returns("getModelsByCategories", arg, getModelsByCategories(output.ALL_MODELS, arg))
  /\ UNCHANGED <<pc, content, regexIdx, modelTypes, providers, idx, providerModels, output, log>>

CallGetProviderModels ==
  /\ pc = "written"
  /\ output.syntaxOK
  /\ \E arg \in GroupArgs :
       Returns("getProviderModels", arg, getProviderModels(output.ALL_MODELS, arg))
  /\ UNCHANGED <<pc, content, regexIdx, modelTypes, providers, idx, providerModels, output, log>>

CallGetCategoryModels ==
  /\ pc = "written"
  /\ output.syntaxOK
  /\ \E arg \in CategoryArgs :
       Returns("getCategoryModels", arg, getCategoryModels(output.ALL_MODELS, arg))
  /\ UNCHANGED <<pc, content, regexIdx, modelTypes, providers, idx, providerModels, output, log>>

\* extractModelTypes is applied to one emitted type alias declaration
ExtractEmitted ==
  /\ pc = "written"
  /\ output.syntaxOK
  /\ \E a \in DOMAIN output.types :
       Returns("extractModelTypes", Obj(output.types[a]),
               extractModelTypes(typeDeclaration(output.types[a].name, output.types[a].models)))
  /\ UNCHANGED <<pc, content, regexIdx, modelTypes, providers, idx, providerModels, output, log>>

NextExports ==
  \/ CallGetModelsByProvider
  \/ CallGetModelsByCategory
  \/ CallGetProviders
  \/ CallGetCategories
  \/ CallGetModelInfo
  \/ CallIsValidModel
  \/ CallFindModels
  \/ CallGetModelCount
  \/ CallGetModelsByProviders
  \/ CallGetModelsByCategories
  \/ CallGetProviderModels
  \/ CallGetCategoryModels
  \/ ExtractEmitted

SpecExports == InitExports /\ [][NextExports]_vars

(***************************************************************************)
(* Properties of the generated module.                                     *)
(***************************************************************************)
RECURSIVE Sum(_)
Sum(ns) == IF ns = <<>> THEN 0 ELSE Head(ns) + Sum(Tail(ns))

\* the count of the tests: the lengths of the model lists of the nested
\* registry, summed over provider, category and type name
registryModelCount(reg) ==
  LET typeCount(types) == Sum([i \in DOMAIN types |-> Len(types[i].value)])
      categoryCount(cats) == Sum([i \in DOMAIN cats |-> typeCount(cats[i].value)])
  IN  Sum([i \in DOMAIN reg |-> categoryCount(reg[i].value)])

\* the generated module exists and can be imported
Generated == output.written /\ output.syntaxOK

\* C1: the length of ALL_MODELS equals the sum of the lengths of the model
\* lists over every provider / category / unique type name of AI_SDK_MODELS.
C1_FlatLengthIsRegistryCount ==
  Generated => Len(output.ALL_MODELS) = registryModelCount(output.AI_SDK_MODELS)

C1_Witness ==
  /\ Generated
  /\ Len(output.AI_SDK_MODELS) = 2
  /\ \E i \in DOMAIN output.AI_SDK_MODELS : Len(output.AI_SDK_MODELS[i].value) = 2
  /\ Len(output.ALL_MODELS) >= 5

\* C2: the providers of ALL_MODELS, the top-level keys of AI_SDK_MODELS and
\* the result of getProviders() are the same set; the categories of
\* ALL_MODELS, the second-level keys of AI_SDK_MODELS and the result of
\* getCategories() are the same set.
C2_SameProvidersAndCategories ==
  Generated =>
    LET all == output.ALL_MODELS
        reg == output.AI_SDK_MODELS
        flatProviders == {all[i].provider : i \in DOMAIN all}
        flatCategories == {all[i].category : i \in DOMAIN all}
        regProviders == {reg[i].key : i \in DOMAIN reg}
        regCategories == UNION {{reg[i].value[j].key : j \in DOMAIN reg[i].value} : i \in DOMAIN reg}
    IN  /\ flatProviders = regProviders
        /\ regProviders = Range(getProviders(all))
        /\ flatCategories = regCategories
        /\ regCategories = Range(getCategories(all))
        /\ call.fn = "getProviders" => Range(call.result) = regProviders
        /\ call.fn = "getCategories" => Range(call.result) = regCategories

C2_Witness ==
  /\ Generated
  /\ call.fn = "getProviders"
  /\ Len(providers) = 2
  /\ Len(call.result) = 1
  /\ includes(call.result[1], <<"-">>)
  /\ Len(getCategories(output.ALL_MODELS)) = 2

\* C3: every entry of the flat list has value = provider + ":" + model.
C3_ValueIsProviderColonModel ==
  Generated =>
    \A i \in DOMAIN output.ALL_MODELS :
      LET m == output.ALL_MODELS[i]
      IN  /\ Len(m.value) = Len(m.provider) + 1 + Len(m.model)
          /\ SubSeq(m.value, 1, Len(m.provider)) = m.provider
          /\ m.value[Len(m.provider) + 1] = ":"
          /\ SubSeq(m.value, Len(m.provider) + 2, Len(m.value)) = m.model

C3_Witness ==
  /\ Generated
  /\ \E i \in DOMAIN output.ALL_MODELS :
       /\ output.ALL_MODELS[i].provider = RequestyAiSdk
       /\ output.ALL_MODELS[i].value = RequestyAiSdk \o <<":","a","1">>

(***************************************************************************)
(* Properties of extractModelTypes.                                        *)
(***************************************************************************)
\* the alias names of a sequence of declarations
MatchedNames(ds) == {m.typeName : m \in Range(ds)}

\* the declarations of one alias name, first occurrence first
Occurrences(ds, n) == SelectSeq(ds, LAMBDA m : m.typeName = n)

\* the declarations of one alias name that hold a single-quoted literal
LiteralOccurrences(ds, n) ==
  SelectSeq(ds, LAMBDA m : m.typeName = n /\ modelMatches(m.definition, 1) # <<>>)

\* the records of a result that bear an alias name
RecordsNamed(types, n) == SelectSeq(types, LAMBDA t : t.typeName = n)

\* a name is declared twice with different sets of literals
DeclaredTwiceDifferently(ds, n) ==
  LET occ == Occurrences(ds, n)
  IN  \E i, j \in DOMAIN occ :
        Range(models(occ[i].definition)) # Range(models(occ[j].definition))

Keywords == <<KwEmbedding, KwImage, KwCompletion, KwTranscription, KwSpeech, KwResponses>>

\* the keywords found in a name when case is ignored
KeywordsFound(n) ==
  {k \in DOMAIN Keywords :
     \E i \in 1..(Len(n) - Len(Keywords[k]) + 1) :
       \A j \in DOMAIN Keywords[k] : LowerChar(n[i + j - 1]) = Keywords[k][j]}

\* C5: the category of an alias is the first of embedding, image,
\* completion, transcription, speech, responses found in its name with case
\* ignored, and chat when none is found.
C5_FirstKeywordInPriorityOrder ==
  \A i \in DOMAIN modelTypes :
    LET found == KeywordsFound(modelTypes[i].typeName)
    IN  IF found = {} THEN modelTypes[i].category = Chat
        ELSE modelTypes[i].category = Keywords[CHOOSE k \in found : \A h \in found : k <= h]

C5_Witness ==
  /\ pc = "returned"
  /\ \E i \in DOMAIN modelTypes :
       /\ KeywordsFound(modelTypes[i].typeName) = {1, 2}
       /\ modelTypes[i].category = KwEmbedding
  /\ \E i \in DOMAIN modelTypes :
       /\ KeywordsFound(modelTypes[i].typeName) = {}
       /\ modelTypes[i].category = Chat

(***************************************************************************)
(* Properties of the records and of the registry of a run of main.         *)
(***************************************************************************)
Categories == {Chat, KwEmbedding, KwImage, KwCompletion, KwTranscription, KwSpeech, KwResponses}

\* the records held anywhere in the state
AllRecords ==
  Range(modelTypes) \cup UNION {Range(providerModels[i].modelTypes) : i \in DOMAIN providerModels}

\* C6: every record and every flat entry carries one of the seven
\* categories, and records of the same alias name carry the same category.
C6_CategoryTotalAndStable ==
  /\ \A r \in AllRecords : r.category \in Categories
  /\ \A r1, r2 \in AllRecords : r1.typeName = r2.typeName => r1.category = r2.category
  /\ \A i \in DOMAIN output.ALL_MODELS : output.ALL_MODELS[i].category \in Categories

C6_Witness ==
  /\ Generated
  /\ Cardinality({output.ALL_MODELS[i].category : i \in DOMAIN output.ALL_MODELS}) = 3
  /\ Len(providerModels) = 2
  /\ \E r1 \in Range(providerModels[1].modelTypes), r2 \in Range(providerModels[2].modelTypes) :
       r1.typeName = r2.typeName /\ r1.category = KwEmbedding

\* C7: the alias name OpenAIResponsesModelId is never the name of a record,
\* never the alias of a key of the nested registry, and never the origin of
\* a flat entry.
C7_ExcludedAliasNeverAppears ==
  /\ \A r \in AllRecords : r.typeName # OpenAIResponsesModelId
  /\ Generated =>
       \A i \in DOMAIN output.AI_SDK_MODELS :
         \A j \in DOMAIN output.AI_SDK_MODELS[i].value :
           \A k \in DOMAIN output.AI_SDK_MODELS[i].value[j].value :
             output.AI_SDK_MODELS[i].value[j].value[k].key
               # uniqueTypeName(output.AI_SDK_MODELS[i].key, OpenAIResponsesModelId)
  /\ Generated =>
       \A i \in DOMAIN output.ALL_MODELS :
         \E p \in DOMAIN providerModels :
           \E r \in Range(providerModels[p].modelTypes) :
             /\ providerModels[p].provider = output.ALL_MODELS[i].provider
             /\ r.typeName # OpenAIResponsesModelId
             /\ r.category = output.ALL_MODELS[i].category
             /\ output.ALL_MODELS[i].model \in Range(r.models)

C7_Witness ==
  /\ Generated
  /\ \E l \in DOMAIN log :
       /\ log[l].outcome = "read"
       /\ \E m \in Range(log[l].declarations) :
            m.typeName = OpenAIResponsesModelId /\ models(m.definition) = << <<"r","1">> >>
       /\ \E i \in DOMAIN output.AI_SDK_MODELS : output.AI_SDK_MODELS[i].key = log[l].provider
  /\ \A i \in DOMAIN output.ALL_MODELS : output.ALL_MODELS[i].model # <<"r","1">>

\* C8: the nested registry has no empty level and no empty model, and an
\* alias without literals or a provider without records is absent from it.
C8_NoEmptyPlaceholder ==
  Generated =>
    LET reg == output.AI_SDK_MODELS
    IN  /\ \A i \in DOMAIN reg :
             /\ reg[i].value # <<>>
             /\ \A j \in DOMAIN reg[i].value :
                  /\ reg[i].value[j].value # <<>>
                  /\ \A k \in DOMAIN reg[i].value[j].value :
                       /\ reg[i].value[j].value[k].value # <<>>
                       /\ \A m \in Range(reg[i].value[j].value[k].value) : m # <<>>
        /\ \A l \in DOMAIN log :
             LET own == {i \in DOMAIN reg : reg[i].key = log[l].provider}
                 typeKeys == UNION {UNION {{reg[i].value[j].value[k].key :
                                              k \in DOMAIN reg[i].value[j].value} :
                                           j \in DOMAIN reg[i].value} :
                                    i \in own}
             IN  /\ log[l].outcome # "read" => own = {}
                 /\ log[l].outcome = "read" =>
                      /\ log[l].records = <<>> => own = {}
                      /\ \A n \in MatchedNames(log[l].declarations) :
                           LiteralOccurrences(log[l].declarations, n) = <<>>
                             => uniqueTypeName(log[l].provider, n) \notin typeKeys

C8_Witness ==
  /\ Generated
  /\ Len(log) = 2
  /\ log[1].outcome = "read"
  /\ log[1].records = <<>>
  /\ MatchedNames(log[1].declarations) # {}
  /\ log[2].outcome = "read"
  /\ \E n \in MatchedNames(log[2].declarations) :
       /\ Len(Occurrences(log[2].declarations, n)) = 2
       /\ Len(LiteralOccurrences(log[2].declarations, n)) = 1
  /\ Len(output.AI_SDK_MODELS) = 1

(***************************************************************************)
(* Properties of the query helpers.                                        *)
(***************************************************************************)
\* result holds the elements of all at the positions S, in increasing order
IsSelection(result, all, S) ==
  /\ Len(result) = Cardinality(S)
  /\ \A i \in S : result[Cardinality({j \in S : j <= i})] = all[i]

\* the positions of the flat list whose field is, character for character, the argument
PositionsEqual(all, field, arg) ==
  {i \in DOMAIN all :
     /\ arg.t = "string"
     /\ Len(all[i][field]) = Len(arg.v)
     /\ \A c \in DOMAIN arg.v : all[i][field][c] = arg.v[c]}

\* C9: getModelsByProvider(p) returns exactly the flat entries whose provider
\* is p under case-sensitive equality, in flat-list order, and
\* getModelsByCategory(c) the same on the category field.
C9_FilterIsExactSelection ==
  /\ call.fn = "getModelsByProvider" =>
       IsSelection(call.result, output.ALL_MODELS,
                   PositionsEqual(output.ALL_MODELS, "provider", call.arg))
  /\ call.fn = "getModelsByCategory" =>
       IsSelection(call.result, output.ALL_MODELS,
                   PositionsEqual(output.ALL_MODELS, "category", call.arg))

C9_Witness ==
  /\ call.fn = "getModelsByCategory"
  /\ Len(call.result) = 2
  /\ call.result[1].provider # call.result[2].provider
  /\ \E i, j, k \in DOMAIN output.ALL_MODELS :
       /\ i < j /\ j < k
       /\ output.ALL_MODELS[i] = call.result[1]
       /\ output.ALL_MODELS[j].category # call.arg.v
       /\ output.ALL_MODELS[k] = call.result[2]

\* C10: called with the empty string, blanks, a name that matches no entry
\* (a differently-cased known name included) or null, getModelsByProvider
\* and getModelsByCategory return the empty sequence.
C10_NoMatchGivesEmpty ==
  /\ call.fn = "getModelsByProvider" =>
       ((call.arg.t = "null" \/
         call.arg.v \notin {output.ALL_MODELS[i].provider : i \in DOMAIN output.ALL_MODELS})
          => call.result = <<>>)
  /\ call.fn = "getModelsByCategory" =>
       ((call.arg.t = "null" \/
         call.arg.v \notin {output.ALL_MODELS[i].category : i \in DOMAIN output.ALL_MODELS})
          => call.result = <<>>)

C10_Witness ==
  /\ call.fn = "getModelsByProvider"
  /\ call.arg = Null
  /\ call.result = <<>>
  /\ \E i \in DOMAIN output.ALL_MODELS : output.ALL_MODELS[i].provider = Openai

\* the position of the first entry of all whose field is v
FirstIndex(all, field, v) ==
  CHOOSE i \in DOMAIN all :
    all[i][field] = v /\ \A j \in 1..(i - 1) : all[j][field] # v

\* result lists every value of the field once, in the order of first appearance
IsFirstAppearanceList(result, all, field) ==
  /\ \A a, b \in DOMAIN result : result[a] = result[b] => a = b
  /\ {result[a] : a \in DOMAIN result} = {all[i][field] : i \in DOMAIN all}
  /\ \A a, b \in DOMAIN result :
       a < b => FirstIndex(all, field, result[a]) < FirstIndex(all, field, result[b])

\* C11: getProviders() returns every distinct provider of the flat list
\* exactly once, in the order of first appearance, and getCategories() does
\* the same on the category field; the result is fixed by the flat list, so
\* repeated calls return equal sequences.
C11_DistinctInFirstAppearanceOrder ==
  /\ call.fn = "getProviders" =>
       IsFirstAppearanceList(call.result, output.ALL_MODELS, "provider")
  /\ call.fn = "getCategories" =>
       IsFirstAppearanceList(call.result, output.ALL_MODELS, "category")

C11_Witness ==
  /\ call.fn = "getCategories"
  /\ Len(call.result) = 2
  /\ \E i, j, k \in DOMAIN output.ALL_MODELS :
       /\ i < j /\ j < k
       /\ output.ALL_MODELS[i].category = call.result[1]
       /\ output.ALL_MODELS[j].category = call.result[2]
       /\ output.ALL_MODELS[k].category = call.result[1]

(***************************************************************************)
(* Properties of the loaded module under a mutating caller.                *)
(***************************************************************************)
\* the caller has mutated nothing but arrays returned by the query helpers
\* and what those arrays hold
OnlyResultsMutated ==
  \A k \in DOMAIN caller.ops : caller.ops[k] \in {"push", "element"}

\* C12: whatever the caller did to the results returned earlier, a query
\* helper returns what it returned before any mutation, and ALL_MODELS and
\* AI_SDK_MODELS are as generated.
C12_ResultsAreFreshCopies ==
  (Generated /\ OnlyResultsMutated) =>
    LET asGenerated == flatList(providerModels)
    IN  /\ output.ALL_MODELS = asGenerated
        /\ output.AI_SDK_MODELS = registry(providerModels)
        /\ call.fn = "getModelsByProvider" =>
             call.result = getModelsByProvider(asGenerated, call.arg)
        /\ call.fn = "getModelsByCategory" =>
             call.result = getModelsByCategory(asGenerated, call.arg)
        /\ call.fn = "getProviders" => call.result = getProviders(asGenerated)
        /\ call.fn = "getCategories" => call.result = getCategories(asGenerated)

\* C13: ALL_MODELS and AI_SDK_MODELS are frozen when the module is loaded,
\* and keep the elements and the keys they were generated with.
C13_ConstantsFrozen ==
  Generated =>
    /\ Object_isFrozen("ALL_MODELS")
    /\ Object_isFrozen("AI_SDK_MODELS")
    /\ Len(output.ALL_MODELS) = Len(flatList(providerModels))
    /\ [i \in DOMAIN output.AI_SDK_MODELS |-> output.AI_SDK_MODELS[i].key]
         = [i \in DOMAIN registry(providerModels) |-> registry(providerModels)[i].key]

(***************************************************************************)
(* Properties of the order and of the names of the generated module.       *)
(***************************************************************************)
\* the iterations of the loop that left records
Contributions == SelectSeq(log, LAMBDA e : e.outcome = "read" /\ e.records # <<>>)

\* the number of models of the records before the r-th
Offset(records, r) == Sum([q \in 1..(r - 1) |-> Len(records[q].models)])

\* C15: the flat list follows the nested iteration: the providers in the
\* order of discovery, one contiguous block each; inside a block the records
\* in the order of capture, and inside a record the models in the order of
\* extraction.
C15_FlatListOrder ==
  Generated =>
    LET all == output.ALL_MODELS
    IN  /\ IsFirstAppearanceList([k \in DOMAIN Contributions |-> Contributions[k].provider],
                                 all, "provider")
        /\ \A i, j, k \in DOMAIN all :
             (i < j /\ j < k /\ all[i].provider = all[k].provider)
               => all[j].provider = all[i].provider
        /\ \A c \in DOMAIN Contributions :
             LET e == Contributions[c]
                 block == SelectSeq(all, LAMBDA m : m.provider = e.provider)
             IN  /\ Len(block) = Offset(e.records, Len(e.records) + 1)
                 /\ \A r \in DOMAIN e.records : \A m \in DOMAIN e.records[r].models :
                      /\ block[Offset(e.records, r) + m].model = e.records[r].models[m]
                      /\ block[Offset(e.records, r) + m].category = e.records[r].category

C15_Witness ==
  /\ Generated
  /\ Len(Contributions) = 2
  /\ Len(Contributions[1].records) = 2
  /\ Len(Contributions[1].records[1].models) = 2
  /\ Contributions[1].records[1].category # Contributions[1].records[2].category
  /\ Len(output.ALL_MODELS) > 3

Separators == {"-", "@", "/"}

\* the provider without its separators, the first character and every
\* character that follows a separator in upper case
PrefixOf(provider) ==
  LET kept == SelectSeq([i \in DOMAIN provider |-> i],
                        LAMBDA i : provider[i] \notin Separators)
  IN  [k \in DOMAIN kept |->
         IF kept[k] = 1 \/ provider[kept[k] - 1] \in Separators
         THEN UpperChar(provider[kept[k]])
         ELSE provider[kept[k]]]

\* the (key, value) pairs of the type names of the nested registry
RegistryTypes(reg) ==
  UNION {UNION {{reg[p].value[c].value[t] : t \in DOMAIN reg[p].value[c].value} :
                c \in DOMAIN reg[p].value} :
         p \in DOMAIN reg}

\* C16: the unique type name of a record is the prefix of its provider
\* followed by the alias name, the prefix being the provider split on '-',
\* '@' and '/' with the first character of every part in upper case; the
\* type aliases and the nested registry name the record alike (foo-bar and
\* FooChatModelId give FooBarFooChatModelId).
C16_UniqueTypeNameIsPrefixedAlias ==
  /\ uniqueTypeName(<<"f","o","o","-","b","a","r">>,
                    <<"F","o","o","C","h","a","t","M","o","d","e","l","I","d">>)
       = <<"F","o","o","B","a","r","F","o","o","C","h","a","t","M","o","d","e","l","I","d">>
  /\ Generated =>
       /\ \A i \in DOMAIN providerModels : \A r \in DOMAIN providerModels[i].modelTypes :
            LET t == providerModels[i].modelTypes[r]
                name == PrefixOf(providerModels[i].provider) \o t.typeName
            IN  /\ \E a \in DOMAIN output.types :
                     output.types[a] = [name |-> name, models |-> t.models]
                /\ \E p \in DOMAIN output.AI_SDK_MODELS :
                     /\ output.AI_SDK_MODELS[p].key = providerModels[i].provider
                     /\ \E c \in DOMAIN output.AI_SDK_MODELS[p].value :
                          /\ output.AI_SDK_MODELS[p].value[c].key = t.category
                          /\ \E k \in DOMAIN output.AI_SDK_MODELS[p].value[c].value :
                               output.AI_SDK_MODELS[p].value[c].value[k]
                                 = [key |-> name, value |-> t.models]
       /\ {[key |-> output.types[a].name, value |-> output.types[a].models] :
             a \in DOMAIN output.types}
            = RegistryTypes(output.AI_SDK_MODELS)

C16_Witness ==
  /\ Generated
  /\ \E a \in DOMAIN output.types :
       SubSeq(output.types[a].name, 1, 13)
         = <<"R","e","q","u","e","s","t","y","A","i","S","d","k">>
  /\ \E p \in DOMAIN output.AI_SDK_MODELS : output.AI_SDK_MODELS[p].key = RequestyAiSdk
  /\ Len(output.types) > 2

\* C17: two distinct (provider, alias name) records of one build never
\* receive the same unique type name, so no two emitted type aliases share
\* a name.
C17_UniqueTypeNamesCollisionFree ==
  Generated =>
    /\ \A i, j \in DOMAIN providerModels :
         \A r \in DOMAIN providerModels[i].modelTypes, s \in DOMAIN providerModels[j].modelTypes :
           (i # j \/ r # s) =>
             uniqueTypeName(providerModels[i].provider, providerModels[i].modelTypes[r].typeName)
               # uniqueTypeName(providerModels[j].provider, providerModels[j].modelTypes[s].typeName)
    /\ \A a, b \in DOMAIN output.types :
         output.types[a].name = output.types[b].name => a = b

(***************************************************************************)
(* Properties of the loop of main.                                         *)
(***************************************************************************)
\* the iterations that read a declaration text
Reads == SelectSeq(log, LAMBDA e : e.outcome = "read")

\* the loop of main over iterations that all read their text and extract
\* the records the history holds for it
RECURSIVE loopOver(_, _)
loopOver(entries, pm) ==
  IF entries = <<>> THEN pm
  ELSE loopOver(Tail(entries), record(pm, Head(entries).provider, Head(entries).records))

\* the collection built by a run that discovers only the providers whose
\* text was read, and reads the same texts
WithoutFailures == loopOver(Reads, <<>>)

\* C18: a provider whose declaration text cannot be read stops nothing: main
\* goes on with the next provider and ends only after the last one, the
\* provider is in neither the nested registry nor the flat list, and the
\* records of the other providers are those of a run that never discovered it.
C18_FailureIsConfined ==
  /\ pc = "aborted" => idx > Len(providers)
  /\ pc \in {"written", "aborted"} =>
       /\ Len(log) = Len(providers)
       /\ \A l \in DOMAIN log : log[l].provider = providers[l]
  /\ pc \in {"loop", "written", "aborted"} => providerModels = WithoutFailures
  /\ Generated =>
       \A l \in DOMAIN log :
         log[l].outcome = "throw" =>
           /\ \A p \in DOMAIN output.AI_SDK_MODELS :
                output.AI_SDK_MODELS[p].key # log[l].provider
           /\ \A i \in DOMAIN output.ALL_MODELS :
                output.ALL_MODELS[i].provider # log[l].provider

C18_Witness ==
  /\ Generated
  /\ Len(log) = 2
  /\ log[1].outcome = "throw"
  /\ log[2].outcome = "read"
  /\ Len(output.AI_SDK_MODELS) = 1
  /\ output.AI_SDK_MODELS[1].key = log[2].provider
  /\ Len(output.ALL_MODELS) > 0

(***************************************************************************)
(* Properties of the literals of a record.                                 *)
(***************************************************************************)
\* the positions of the quote characters of a text
QuotePositions(definition) ==
  SelectSeq([i \in DOMAIN definition |-> i], LAMBDA i : definition[i] = "'")

\* the inner texts of the single-quoted literals of a text: what stands
\* between the first and the second quote, the third and the fourth, ...
QuotedTexts(definition) ==
  LET q == QuotePositions(definition)
  IN  [k \in 1..(Len(q) \div 2) |-> SubSeq(definition, q[2 * k - 1] + 1, q[2 * k] - 1)]

\* the definition text a record was captured from
CapturedFrom(ds, rec) == LiteralOccurrences(ds, rec.typeName)[1].definition

CollectionProvider ==
  [OPENAI_MODELS |-> Openai, ANTHROPIC_MODELS |-> Anthropic,
   GOOGLE_MODELS |-> Google, MISTRAL_MODELS |-> Mistral]

\* C20: the list under the category key c of a provider collection holds the
\* model fields of exactly the entries of ALL_MODELS whose provider is the
\* provider of the collection (openai, anthropic, google, mistral) and whose
\* category is c, in the order of the flat list.
C20_CollectionsMatchFlatList ==
  (call.fn \in DOMAIN CollectionProvider /\ caller.ops = <<>>) =>
    LET all == output.ALL_MODELS
        S == {i \in DOMAIN all :
                /\ all[i].provider = CollectionProvider[call.fn]
                /\ all[i].category = call.arg.v}
    IN  /\ Len(call.result) = Cardinality(S)
        /\ \A i \in S : call.result[Cardinality({j \in S : j <= i})] = all[i].model

\* the positions of the flat list whose model field is the string argument
ModelHits(arg) ==
  {i \in DOMAIN output.ALL_MODELS : arg.t = "string" /\ output.ALL_MODELS[i].model = arg.v}

\* C21: getModelInfo(m) returns the first entry of the flat list whose model
\* field equals m, and null when no entry matches or when m is null,
\* undefined or the empty string; isValidModel(m) is true exactly when
\* getModelInfo(m) is not null.
C21_GetModelInfoFirstMatch ==
  /\ call.fn = "getModelInfo" =>
       IF call.arg \in {Null, Undefined, Str(<<>>)} \/ ModelHits(call.arg) = {}
       THEN call.result = Null
       ELSE \E i \in ModelHits(call.arg) :
              /\ \A j \in ModelHits(call.arg) : i <= j
              /\ call.result = Obj(output.ALL_MODELS[i])
  /\ call.fn = "isValidModel" =>
       call.result = (getModelInfo(output.ALL_MODELS, call.arg) # Null)

\* a model listed under two providers is looked up
C21_Witness ==
  /\ call.fn = "getModelInfo"
  /\ call.result # Null
  /\ \E i, j \in ModelHits(call.arg) :
       output.ALL_MODELS[i].provider # output.ALL_MODELS[j].provider

\* the positions of the flat list that match every field of the options that is supplied
MatchesSupplied(options) ==
  {i \in DOMAIN output.ALL_MODELS :
     /\ options.provider # Undefined => Str(output.ALL_MODELS[i].provider) = options.provider
     /\ options.category # Undefined => Str(output.ALL_MODELS[i].category) = options.category}

\* C22: findModels(options) returns, in flat-list order, exactly the entries
\* that match every supplied field of options; getModelCount(options) is the
\* length of findModels(options), getModelCount() is the length of ALL_MODELS,
\* and getModelCount(options) never exceeds getModelCount().
C22_FindModelsMatchesSuppliedFields ==
  /\ call.fn = "findModels" =>
       IsSelection(call.result, output.ALL_MODELS, MatchesSupplied(call.arg))
  /\ call.fn = "getModelCount" =>
       IF call.arg = Undefined THEN call.result = Len(output.ALL_MODELS)
       ELSE /\ call.result = Cardinality(MatchesSupplied(call.arg))
            /\ call.result = Len(findModels(output.ALL_MODELS, call.arg))
            /\ call.result <= getModelCount(output.ALL_MODELS, Undefined)

\* the positions of the flat list whose field is a member of the list
PositionsIn(field, list) ==
  {i \in DOMAIN output.ALL_MODELS : \E k \in DOMAIN list : list[k] = output.ALL_MODELS[i][field]}

\* C23: getModelsByProviders(list) returns exactly the flat entries whose
\* provider is a member of list, and getModelsByCategories(list) exactly those
\* whose category is a member of list, both in flat-list order; an empty list
\* yields an empty result.
C23_MultiFiltersSelectMembers ==
  /\ call.fn = "getModelsByProviders" =>
       /\ IsSelection(call.result, output.ALL_MODELS, PositionsIn("provider", call.arg))
       /\ call.arg = <<>> => call.result = <<>>
  /\ call.fn = "getModelsByCategories" =>
       /\ IsSelection(call.result, output.ALL_MODELS, PositionsIn("category", call.arg))
       /\ call.arg = <<>> => call.result = <<>>

\* a list names two providers in the reverse of their flat-list order and
\* entries of both are returned
C23_Witness ==
  /\ call.fn = "getModelsByProviders"
  /\ Len(call.arg) = 2
  /\ call.result # <<>>
  /\ call.result[1].provider = call.arg[2]
  /\ call.result[Len(call.result)].provider = call.arg[1]

\* the positions of the flat list whose field is the string argument
PositionsOf(field, arg) ==
  {i \in DOMAIN output.ALL_MODELS : arg.t = "string" /\ output.ALL_MODELS[i][field] = arg.v}

\* grouped is the grouping of the flat entries at the positions P by the field by
IsGrouping(grouped, P, by) ==
  /\ {grouped[k].key : k \in DOMAIN grouped} = {output.ALL_MODELS[i][by] : i \in P}
  /\ \A k, l \in DOMAIN grouped : grouped[k].key = grouped[l].key => k = l
  /\ \A k \in DOMAIN grouped :
       IsSelection(grouped[k].value,
                   [i \in DOMAIN output.ALL_MODELS |-> output.ALL_MODELS[i].model],
                   {i \in P : output.ALL_MODELS[i][by] = grouped[k].key})
  /\ Sum([k \in DOMAIN grouped |-> Len(grouped[k].value)]) = Cardinality(P)

\* C24: getProviderModels(p) groups the flat entries of provider p by
\* category: its keys are exactly the categories that occur for p, the list
\* under a category is the model fields of the entries of p with that category
\* in flat-list order, and the list lengths sum to the number of flat entries
\* of p; getCategoryModels(c) is the same grouping of the entries of category
\* c by provider.
C24_GroupingsPartitionEntries ==
  /\ call.fn = "getProviderModels" =>
       IsGrouping(call.result, PositionsOf("provider", call.arg), "category")
  /\ call.fn = "getCategoryModels" =>
       IsGrouping(call.result, PositionsOf("category", call.arg), "provider")

\* a provider with entries of two categories is grouped
C24_Witness ==
  /\ call.fn = "getProviderModels"
  /\ Len(call.result) >= 2
  /\ Cardinality(PositionsOf("provider", call.arg)) >= 2

\* the suffixes of the patterns, in the order the patterns are listed
PatternOrder == <<
  <<"M","o","d","e","l","I","d">>,
  <<"M","o","d","e","l">>,
  <<"M","o","d","e","l","s">>,
  <<"C","h","a","t","M","o","d","e","l">>,
  <<"E","m","b","e","d","d","i","n","g","M","o","d","e","l">>,
  <<"I","m","a","g","e","M","o","d","e","l">>
>>

\* the matches of the k-th pattern that hold a literal and bear the name n
Captures(k, n) == LiteralOccurrences(matchesFrom(content, PatternOrder[k], 1), n)

\* the pattern that first captured the record of the name n
CapturingPattern(n) ==
  CHOOSE k \in DOMAIN PatternOrder :
    /\ Captures(k, n) # <<>>
    /\ \A l \in 1..(k - 1) : Captures(l, n) = <<>>

\* the position in the text of the declaration the record of n was captured from
DeclarationStart(n) ==
  LET k == CapturingPattern(n)
      m == Captures(k, n)[1]
  IN  CHOOSE p \in DOMAIN content :
        /\ MatchAt(content, p, PatternOrder[k]) = m
        /\ \A q \in 1..(p - 1) : MatchAt(content, q, PatternOrder[k]) # m

\* ModelId-suffixed names are group 1, Model-suffixed 2, Models-suffixed 3
SuffixGroup(n) ==
  IF EndsWith(n, PatternOrder[1]) THEN 1
  ELSE IF EndsWith(n, PatternOrder[2]) THEN 2
  ELSE 3

\* C25 as stated: every recorded alias whose name ends in ModelId precedes
\* every recorded alias whose name ends in Model, which precedes every
\* recorded alias whose name ends in Models, and inside one such group the
\* records follow the order of their declarations in the text.
C25_OrderedBySuffixThenPosition ==
  pc = "returned" =>
    \A i, j \in DOMAIN modelTypes :
      i < j =>
        LET a == modelTypes[i].typeName
            b == modelTypes[j].typeName
        IN  \/ SuffixGroup(a) < SuffixGroup(b)
            \/ /\ SuffixGroup(a) = SuffixGroup(b)
               /\ DeclarationStart(a) < DeclarationStart(b)

\* C25 as amended: the records are ordered by the pattern that first
\* captured them, in the order ModelId, Model, Models, ChatModel,
\* EmbeddingModel, ImageModel, and only then by the position of their
\* declarations in the text; a record captured by one of the last three
\* patterns has a name that ends in Model and stands after every record whose
\* name ends in Models; when no record is captured by one of the last three
\* patterns the order is the one of the three suffixes and then of the text.
C25_OrderedByPatternThenPosition ==
  pc = "returned" =>
    /\ \A i, j \in DOMAIN modelTypes :
         i < j =>
           LET a == modelTypes[i].typeName
               b == modelTypes[j].typeName
           IN  \/ CapturingPattern(a) < CapturingPattern(b)
               \/ /\ CapturingPattern(a) = CapturingPattern(b)
                  /\ DeclarationStart(a) < DeclarationStart(b)
    /\ \A i \in DOMAIN modelTypes :
         LET a == modelTypes[i].typeName
         IN  IF CapturingPattern(a) <= 3 THEN SuffixGroup(a) = CapturingPattern(a)
             ELSE SuffixGroup(a) = 2
    /\ (\A i \in DOMAIN modelTypes : CapturingPattern(modelTypes[i].typeName) <= 3)
         => \A i, j \in DOMAIN modelTypes :
              i < j =>
                LET a == modelTypes[i].typeName
                    b == modelTypes[j].typeName
                IN  \/ SuffixGroup(a) < SuffixGroup(b)
                    \/ /\ SuffixGroup(a) = SuffixGroup(b)
                       /\ DeclarationStart(a) < DeclarationStart(b)

\* a record stands before a record that is declared earlier in the text
C25_Witness ==
  /\ pc = "returned"
  /\ \E i, j \in DOMAIN modelTypes :
       /\ i < j
       /\ CapturingPattern(modelTypes[i].typeName) < CapturingPattern(modelTypes[j].typeName)
       /\ DeclarationStart(modelTypes[i].typeName) > DeclarationStart(modelTypes[j].typeName)

\* C26: in one run of main the output file is written exactly once, only
\* after every discovered provider has been attempted, and it is written also
\* when no provider yielded any record (the written registry and flat list
\* are then empty); no provider is processed after the write.
C26_WrittenOnceAfterAllProviders ==
  /\ [] /\ pc = "written" => output.written
        /\ output.written =>
             /\ Len(log) = Len(providers)
             /\ \A i \in DOMAIN log : log[i].provider = providers[i]
             /\ (\A i \in DOMAIN log : log[i].records = <<>>) =>
                   /\ output.AI_SDK_MODELS = <<>>
                   /\ output.ALL_MODELS = <<>>
  /\ [][ /\ (pc = "loop" /\ idx > Len(providers)) =>
              \/ pc' = "written" /\ output'.written
              \/ pc' = "aborted" /\ output' = output
         /\ output' # output =>
              /\ ~ output.written
              /\ output'.written
              /\ idx > Len(providers)
         /\ output.written =>
              /\ output' = output
              /\ log' = log
              /\ idx' = idx
              /\ providerModels' = providerModels ]_vars

\* the file is written after two providers were attempted and none yielded a record
C26_Witness ==
  /\ pc = "written"
  /\ output.written
  /\ Len(providers) = 2
  /\ Len(log) = 2
  /\ \A i \in DOMAIN log : log[i].records = <<>>
  /\ output.ALL_MODELS = <<>>

\* C27: for every string p, findModels({provider: p}) returns the same
\* sequence as getModelsByProvider(p), and for every string c,
\* findModels({category: c}) the same sequence as getModelsByCategory(c),
\* the empty string included.
C27_FindModelsAgreesWithHelpers ==
  call.fn = "findModels" =>
    /\ (call.arg.provider.t = "string" /\ call.arg.category = Undefined) =>
         call.result = getModelsByProvider(output.ALL_MODELS, call.arg.provider)
    /\ (call.arg.category.t = "string" /\ call.arg.provider = Undefined) =>
         call.result = getModelsByCategory(output.ALL_MODELS, call.arg.category)

\* C28: the provider filters partition the flat list: concatenating
\* getModelsByProvider(p) for p ranging over getProviders() in the order
\* returned reproduces ALL_MODELS, entry for entry and in the same order.
C28_ProviderFiltersPartitionFlatList ==
  Generated =>
    LET ps == getProviders(output.ALL_MODELS)
    IN  Concat([k \in DOMAIN ps |-> getModelsByProvider(output.ALL_MODELS, Str(ps[k]))])
          = output.ALL_MODELS

\* the flat list holds several entries of each of two providers
C28_Witness ==
  /\ Generated
  /\ Len(getProviders(output.ALL_MODELS)) = 2
  /\ \A k \in 1..2 :
       Len(getModelsByProvider(output.ALL_MODELS, Str(getProviders(output.ALL_MODELS)[k]))) >= 2

\* C29: for every record of a build, extractModelTypes applied to the type
\* alias declaration emitted for it (the literals of the record in order, then
\* the branch (string & {})) yields one record whose name is the unique type
\* name and whose models are the models of the record, in the same order.
C29_EmittedAliasRoundTrips ==
  call.fn = "extractModelTypes" =>
    /\ Len(call.result) = 1
    /\ call.result[1].typeName = call.arg.v.name
    /\ call.result[1].models = call.arg.v.models

\* the declaration of an alias of several models is read back
C29_Witness ==
  /\ call.fn = "extractModelTypes"
  /\ Len(call.arg.v.models) >= 2
  /\ Len(call.result) = 1
  /\ call.result[1].models = call.arg.v.models

\* the provider identifier holds '-', '@' or '/'
HasSeparator(provider) ==
  \E i \in DOMAIN provider : provider[i] \in {"-", "@", "/"}

\* the emitted key is the identifier between single quotes
IsQuoted(k, provider) == k = <<"'">> \o provider \o <<"'">>

====
